---- MODULE Spec2Model ----
(***************************************************************************)
(* A model of sync_sora_daily_videos.py: source resolution, manifest       *)
(* index, file selection, per-file sync with cover resolution, and the     *)
(* run record.                                                             *)
(*                                                                         *)
(* Strings are sequences of one-character strings, so that strip(),        *)
(* lower(), endswith(), slicing and lexicographic comparison are computed  *)
(* the way the Python code computes them.  A directory is the sequence of  *)
(* its entries in the order the operating system enumerates them.          *)
(***************************************************************************)
EXTENDS Integers, Sequences, FiniteSets, TLC

(***************************************************************************)
(* String helpers (Python str and pathlib.Path operations used by the code) *)
(***************************************************************************)

\* Characters of the model's alphabet in code-point order (str comparison).
AsciiOrder ==
    << "\n", "\r", " ", ".", "0", "1", "2", "3", "4", "5", "6", "7", "8", "9", ":",
       "A", "E", "F", "L", "M", "O", "R", "S", "T", "W", "X", "_",
       "a", "b", "c", "d", "e", "f", "g", "h", "i", "j", "l", "m", "n", "o", "p",
       "r", "s", "t", "u", "w", "x", "y" >>

Ord(c) == CHOOSE i \in 1..Len(AsciiOrder) : AsciiOrder[i] = c

Digits == {"0", "1", "2", "3", "4", "5", "6", "7", "8", "9"}

SetMax(S) == CHOOSE x \in S : \A y \in S : y <= x

SetMin(S) == CHOOSE x \in S : \A y \in S : x <= y

\* str.isspace for one character
IsSpace(c) == c \in {" ", "\n", "\r"}

\* str.strip()
Strip(s) ==
    LET keep == {i \in 1..Len(s) : ~IsSpace(s[i])}
    IN  IF keep = {} THEN <<>> ELSE SubSeq(s, SetMin(keep), SetMax(keep))

LowerChar(c) ==
    CASE c = "A" -> "a" [] c = "E" -> "e" [] c = "F" -> "f" [] c = "L" -> "l"
      [] c = "M" -> "m" [] c = "O" -> "o" [] c = "R" -> "r" [] c = "S" -> "s"
      [] c = "T" -> "t" [] c = "W" -> "w" [] c = "X" -> "x"
      [] OTHER -> c

\* str.lower()
Lower(s) == [i \in 1..Len(s) |-> LowerChar(s[i])]

\* str.endswith / str.startswith / `sub in s`
EndsWith(s, suf) ==
    /\ Len(s) >= Len(suf)
    /\ SubSeq(s, Len(s) - Len(suf) + 1, Len(s)) = suf

StartsWith(s, pre) ==
    /\ Len(s) >= Len(pre)
    /\ SubSeq(s, 1, Len(pre)) = pre

Contains(s, sub) ==
    \E i \in 1..(Len(s) - Len(sub) + 1) : SubSeq(s, i, i + Len(sub) - 1) = sub

\* str.replace(old, new) for one-character old and new
ReplaceChar(s, old, new) == [i \in 1..Len(s) |-> IF s[i] = old THEN new ELSE s[i]]

\* str.isdigit(): non-empty and every character a digit
IsDigit(s) == Len(s) > 0 /\ \A i \in 1..Len(s) : s[i] \in Digits

\* Python's < on str: lexicographic by code point
RECURSIVE StrLess(_, _)
StrLess(s, t) ==
    IF t = <<>> THEN FALSE
    ELSE IF s = <<>> THEN TRUE
    ELSE IF s[1] = t[1] THEN StrLess(Tail(s), Tail(t))
    ELSE Ord(s[1]) < Ord(t[1])

\* Path.stem: the name without its last suffix
PathStem(name) ==
    LET dots == {i \in 2..(Len(name) - 1) : name[i] = "."}
    IN  IF dots = {} THEN name ELSE SubSeq(name, 1, SetMax(dots) - 1)

\* Path.with_suffix(suffix)
WithSuffix(name, suffix) == PathStem(name) \o suffix

DotMp4 == <<".", "m", "p", "4">>
DotTxt == <<".", "t", "x", "t">>
DotPng == <<".", "p", "n", "g">>
WmSuffix == <<"_", "w", "m">>
Http == <<"h", "t", "t", "p">>
Thumbnail == <<"t", "h", "u", "m", "b", "n", "a", "i", "l">>

(***************************************************************************)
(* Pure functions of sync_sora_daily_videos.py                             *)
(***************************************************************************)

\* A directory entry is [name, kind ("dir" | "file"), mtime].

is_wm_video_file(name) == EndsWith(Lower(PathStem(name)), WmSuffix)

normalized_asset_id_from_video(name) ==
    LET stem == PathStem(name)
    IN  IF EndsWith(Lower(stem), WmSuffix) THEN SubSeq(stem, 1, Len(stem) - 3) ELSE stem

list_syncable_videos(source_dir, video_variant) ==
    LET files == SelectSeq(source_dir, LAMBDA p : EndsWith(p.name, DotMp4) /\ p.kind = "file")
    IN  IF video_variant = "main_only"
          THEN SelectSeq(files, LAMBDA p : ~is_wm_video_file(p.name))
        ELSE IF video_variant = "wm_only"
          THEN SelectSeq(files, LAMBDA p : is_wm_video_file(p.name))
        ELSE files

Latest == <<"l", "a", "t", "e", "s", "t">>
FlatTokens == { <<"r", "o", "o", "t">>, <<"f", "l", "a", "t">>, <<".">> }

DailyDirs(source_root) ==
    {p \in {source_root[i] : i \in 1..Len(source_root)} :
        p.kind = "dir" /\ IsDigit(p.name) /\ Len(p.name) = 8}

\* sorted(..., key=name, reverse=True)[0]
GreatestName(dirs) ==
    (CHOOSE p \in dirs : \A q \in dirs : q = p \/ StrLess(q.name, p.name)).name

\* The result of resolve_source_dir is [ok, dir, mode, err]; dir is the path
\* below the source root (<<>> is the root itself, <<name>> a subdirectory),
\* err the FileNotFoundError raised.
Found(d, m) == [ok |-> TRUE, dir |-> d, mode |-> m, err |-> ""]
Fail(e) == [ok |-> FALSE, dir |-> <<>>, mode |-> "", err |-> e]

\* Mutant: videos directly under the root are preferred to the daily folders
ResolveLatest_FlatFirst(source_root, video_variant) ==
    IF list_syncable_videos(source_root, video_variant) # <<>>
      THEN Found(<<>>, "flat")
    ELSE IF DailyDirs(source_root) # {}
      THEN Found(<<GreatestName(DailyDirs(source_root))>>, "daily")
    ELSE Fail("no_daily_folders_and_no_syncable_videos")

\* if date_lower == "latest": ...
ResolveLatest(source_root, video_variant) ==
    IF DailyDirs(source_root) # {}
      THEN Found(<<GreatestName(DailyDirs(source_root))>>, "daily")
    ELSE IF list_syncable_videos(source_root, video_variant) # <<>>
      THEN Found(<<>>, "flat")
    ELSE Fail("no_daily_folders_and_no_syncable_videos")

\* Mutant: the flat-root token is accepted without looking for videos
ResolveFlat_Unchecked(source_root, video_variant) == Found(<<>>, "flat")

\* if date_lower in {"root", "flat", "."}: ...
ResolveFlat(source_root, video_variant) ==
    IF list_syncable_videos(source_root, video_variant) = <<>>
      THEN Fail("no_syncable_videos_under_source_root")
    ELSE Found(<<>>, "flat")

\* source_dir = source_root / date_value (with an empty date_value, the root)
ResolveDate(source_root, date_value) ==
    IF date_value = <<>> THEN Found(<<>>, "daily")
    ELSE IF \E i \in 1..Len(source_root) :
           source_root[i].name = date_value /\ source_root[i].kind = "dir"
      THEN Found(<<date_value>>, "daily")
    ELSE Fail("date_folder_not_found")

resolve_source_dir(source_root, date_arg, video_variant) ==
    LET date_value == Strip(IF date_arg = <<>> THEN Latest ELSE date_arg)
        date_lower == Lower(date_value)
    IN  IF date_lower = Latest THEN ResolveLatest(source_root, video_variant)
        ELSE IF date_lower \in FlatTokens THEN ResolveFlat(source_root, video_variant)
        ELSE ResolveDate(source_root, date_value)

\* A manifest item is [asset_id, title, thumbnail, candidates]; a key that is
\* missing, null or "" in the JSON object is the empty string (item.get(k) or "").
pick_thumbnail_url(item) ==
    LET url  == Strip(item.thumbnail)
        good == {i \in 1..Len(item.candidates) :
                    Contains(item.candidates[i], Thumbnail) /\ StartsWith(item.candidates[i], Http)}
    IN  IF url # <<>> THEN url
        ELSE IF good # {} THEN item.candidates[SetMin(good)]
        ELSE <<>>

\* by_asset[asset_id] = item, a later item replacing an earlier one of the same id
ByAsset(entries) ==
    LET ids == {entries[i].asset_id : i \in 1..Len(entries)} \ {<<>>}
    IN  [a \in ids |-> entries[SetMax({i \in 1..Len(entries) : entries[i].asset_id = a})]]

\* Mutant: a URL is counted once however many assets resolve to it
ThumbCounts_Once(by_asset) ==
    LET urls == {pick_thumbnail_url(by_asset[a]) : a \in DOMAIN by_asset} \ {<<>>}
    IN  [u \in urls |-> 1]

\* thumb_counts[url] = number of by_asset values whose thumbnail URL is url
ThumbCounts(by_asset) ==
    LET urls == {pick_thumbnail_url(by_asset[a]) : a \in DOMAIN by_asset} \ {<<>>}
    IN  [u \in urls |-> Cardinality({a \in DOMAIN by_asset : pick_thumbnail_url(by_asset[a]) = u})]

\* The manifest file is [kind, entries]: kind is "missing" (no such file),
\* "invalid" (open() or json.load raises), "object" (valid JSON, not an array)
\* or "array".  The result is [raised, entries, by_asset, thumb_counts].
load_manifest_index(manifest_file) ==
    LET entries == IF manifest_file.kind = "array" THEN manifest_file.entries ELSE <<>>
        Index(raised, es) ==
            [raised |-> raised, entries |-> es, by_asset |-> ByAsset(es),
             thumb_counts |-> ThumbCounts(ByAsset(es))]
    IN  IF manifest_file.kind = "missing" THEN Index(FALSE, <<>>)
        ELSE IF manifest_file.kind = "invalid" THEN Index(TRUE, <<>>)
        ELSE Index(FALSE, entries)

candidate_names_for_asset(asset_id, video_variant) ==
    IF video_variant = "wm_only" THEN << asset_id \o WmSuffix \o DotMp4 >>
    ELSE IF video_variant = "main_only" THEN << asset_id \o DotMp4 >>
    ELSE << asset_id \o DotMp4, asset_id \o WmSuffix \o DotMp4 >>

\* Mutant: a name that an earlier entry used is appended again
RECURSIVE MatchCandidates_ReusesNames(_, _, _)
MatchCandidates_ReusesNames(names, files, st) ==
    IF names = <<>> THEN st
    ELSE LET name    == Head(names)
             matched == SelectSeq(files, LAMBDA p : p.name = name)
         IN  IF matched = <<>>
               THEN MatchCandidates_ReusesNames(Tail(names), files, st)
             ELSE MatchCandidates_ReusesNames(Tail(names), files,
                     [st EXCEPT !.selected = Append(@, matched[1]),
                                !.used_names = @ \cup {name}])

\* The inner loop of the manifest walk: append each candidate name that is on
\* disk and not yet used.  st is [selected, used_names, seen_assets].
RECURSIVE MatchCandidates(_, _, _)
MatchCandidates(names, files, st) ==
    IF names = <<>> THEN st
    ELSE LET name    == Head(names)
             matched == SelectSeq(files, LAMBDA p : p.name = name)
         IN  IF name \in st.used_names \/ matched = <<>>
               THEN MatchCandidates(Tail(names), files, st)
             ELSE MatchCandidates(Tail(names), files,
                     [st EXCEPT !.selected = Append(@, matched[1]),
                                !.used_names = @ \cup {name}])

\* The outer loop of the manifest walk, over the manifest's entries in order.
RECURSIVE WalkManifest(_, _, _, _)
WalkManifest(entries, files, video_variant, st) ==
    IF entries = <<>> THEN st
    ELSE LET asset_id == Strip(Head(entries).asset_id)
         IN  IF asset_id = <<>> \/ asset_id \in st.seen_assets
               THEN WalkManifest(Tail(entries), files, video_variant, st)
             ELSE WalkManifest(Tail(entries), files, video_variant,
                     MatchCandidates(candidate_names_for_asset(asset_id, video_variant), files,
                                     [st EXCEPT !.seen_assets = @ \cup {asset_id}]))

\* Mutant: reverse=True is lost, the oldest file comes first
RECURSIVE SortByMtimeDesc_Ascending(_)
SortByMtimeDesc_Ascending(ps) ==
    IF ps = <<>> THEN <<>>
    ELSE LET rest == SortByMtimeDesc_Ascending(SubSeq(ps, 1, Len(ps) - 1))
             p    == ps[Len(ps)]
             k    == Cardinality({i \in 1..Len(rest) : rest[i].mtime <= p.mtime})
         IN  SubSeq(rest, 1, k) \o <<p>> \o SubSeq(rest, k + 1, Len(rest))

\* list.sort(key=mtime, reverse=True): descending, elements of equal mtime
\* keep the order they had
RECURSIVE SortByMtimeDesc(_)
SortByMtimeDesc(ps) ==
    IF ps = <<>> THEN <<>>
    ELSE LET rest == SortByMtimeDesc(SubSeq(ps, 1, Len(ps) - 1))
             p    == ps[Len(ps)]
             k    == Cardinality({i \in 1..Len(rest) : rest[i].mtime >= p.mtime})
         IN  SubSeq(rest, 1, k) \o <<p>> \o SubSeq(rest, k + 1, Len(rest))

\* Mutant: the files stay in the order the directory listing gave them
SortByName_Listing(ps) == ps

\* sorted(files, key=name): ascending by name
RECURSIVE SortByName(_)
SortByName(ps) ==
    IF ps = <<>> THEN <<>>
    ELSE LET rest == SortByName(SubSeq(ps, 1, Len(ps) - 1))
             p    == ps[Len(ps)]
             k    == Cardinality({i \in 1..Len(rest) : ~StrLess(p.name, rest[i].name)})
         IN  SubSeq(rest, 1, k) \o <<p>> \o SubSeq(rest, k + 1, Len(rest))

\* Mutant: the selection is returned without truncation
ordered_source_videos_Unlimited(source_dir, manifest_entries, limit, video_variant, source_mode) ==
    LET files == list_syncable_videos(source_dir, video_variant)
        walked == WalkManifest(manifest_entries, files, video_variant,
                               [selected |-> <<>>, used_names |-> {}, seen_assets |-> {}])
        remaining == SelectSeq(files, LAMBDA p : p.name \notin walked.used_names)
    IN  IF source_mode = "flat"
          THEN walked.selected \o SortByMtimeDesc(remaining)
        ELSE SortByName(files)

ordered_source_videos(source_dir, manifest_entries, limit, video_variant, source_mode) ==
    LET files == list_syncable_videos(source_dir, video_variant)
        walked == WalkManifest(manifest_entries, files, video_variant,
                               [selected |-> <<>>, used_names |-> {}, seen_assets |-> {}])
        remaining == SelectSeq(files, LAMBDA p : p.name \notin walked.used_names)
        selected == IF source_mode = "flat"
                      THEN walked.selected \o SortByMtimeDesc(remaining)
                    ELSE SortByName(files)
    IN  IF files = <<>> THEN <<>>
        ELSE IF limit > 0 THEN SubSeq(selected, 1, IF limit < Len(selected) THEN limit ELSE Len(selected))
        ELSE selected

\* Mutant: the fallback is the file's own stem, marker suffix included
title_for_file_StemFallback(name, manifest_map) ==
    LET stem  == normalized_asset_id_from_video(name)
        title == IF stem \in DOMAIN manifest_map THEN Strip(manifest_map[stem].title) ELSE <<>>
    IN  IF title # <<>>
          THEN Strip(ReplaceChar(ReplaceChar(title, "\r", " "), "\n", " "))
        ELSE PathStem(name)

title_for_file(name, manifest_map) ==
    LET stem  == normalized_asset_id_from_video(name)
        title == IF stem \in DOMAIN manifest_map THEN Strip(manifest_map[stem].title) ELSE <<>>
    IN  IF title # <<>>
          THEN Strip(ReplaceChar(ReplaceChar(title, "\r", " "), "\n", " "))
        ELSE stem

PrimaryAttempts == 2
FrameAttempts == 2

\* Mutant: the loop has no break, the second attempt is made after a success
UrlopenLoop_NoBreak(k, net) ==
    [tries |-> PrimaryAttempts, data |-> \E j \in k..PrimaryAttempts : net.urlopen[j]]

\* The `for _ in range(2)` loop of urlopen attempts; net.urlopen[k] tells whether
\* the k-th attempt would succeed.  The result is the number of attempts made
\* and whether data was read.
RECURSIVE UrlopenLoop(_, _)
UrlopenLoop(k, net) ==
    IF k > PrimaryAttempts THEN [tries |-> PrimaryAttempts, data |-> FALSE]
    ELSE IF net.urlopen[k] THEN [tries |-> k, data |-> TRUE]
    ELSE UrlopenLoop(k + 1, net)

\* The attempts of the urlopen loop in order: each call, followed by its
\* exception if it raised
RECURSIVE UrlopenTrace(_, _, _)
UrlopenTrace(k, tries, net) ==
    IF k > tries THEN <<>>
    ELSE <<"urlopen">> \o (IF net.urlopen[k] THEN <<>> ELSE <<"urlopen_failed">>)
             \o UrlopenTrace(k + 1, tries, net)

\* net = [urlopen, curl, image] are the answers of the network, of curl and of
\* the image library.  The result is [raised, urlopens, curls, wrote, trace];
\* trace lists the attempts in order.
download_thumbnail_image(out_exists, overwrite, net) ==
    LET primary == UrlopenLoop(1, net)
        curls   == IF primary.data THEN 0 ELSE 1
        data    == primary.data \/ net.curl
        trace   == UrlopenTrace(1, primary.tries, net)
                     \o (IF primary.data THEN <<>>
                         ELSE <<"curl">> \o (IF net.curl THEN <<>> ELSE <<"curl_failed">>))
    IN  IF out_exists /\ ~overwrite
          THEN [raised |-> FALSE, urlopens |-> 0, curls |-> 0, wrote |-> FALSE, trace |-> <<>>]
        ELSE IF ~data
          THEN [raised |-> TRUE, urlopens |-> primary.tries, curls |-> curls, wrote |-> FALSE,
                trace |-> trace]
        ELSE IF ~net.image
          THEN [raised |-> TRUE, urlopens |-> primary.tries, curls |-> curls, wrote |-> FALSE,
                trace |-> trace]
        ELSE [raised |-> FALSE, urlopens |-> primary.tries, curls |-> curls, wrote |-> TRUE,
              trace |-> trace]

\* The `for attempt_ts in (ts, 0.0)` loop; ffmpeg[k] tells whether the k-th
\* extraction would succeed.
RECURSIVE FfmpegLoop(_, _)
FfmpegLoop(k, ffmpeg) ==
    IF k > FrameAttempts THEN [tries |-> FrameAttempts, ok |-> FALSE]
    ELSE IF ffmpeg[k] THEN [tries |-> k, ok |-> TRUE]
    ELSE FfmpegLoop(k + 1, ffmpeg)

\* Mutant: an existing cover is extracted again
extract_cover_frame_Always(out_exists, overwrite, ffmpeg) ==
    LET loop == FfmpegLoop(1, ffmpeg)
    IN  [ok |-> loop.ok, ffmpegs |-> loop.tries, wrote |-> loop.ok]

\* The result is [ok, ffmpegs, wrote].
extract_cover_frame(out_exists, overwrite, ffmpeg) ==
    LET loop == FfmpegLoop(1, ffmpeg)
    IN  IF out_exists /\ ~overwrite
          THEN [ok |-> TRUE, ffmpegs |-> 0, wrote |-> FALSE]
        ELSE [ok |-> loop.ok, ffmpegs |-> loop.tries, wrote |-> loop.ok]

(***************************************************************************)
(* State                                                                   *)
(***************************************************************************)

VARIABLES
    source_root,    \* the source root directory: its entries in enumeration order
    subdirs,        \* the entries of each subdirectory of the source root
    manifest_file,  \* manifest.latest.json of the resolved source directory
    args,           \* the command line: date, video_variant, limit, overwrite, cover_strategy
    target,         \* the files of the target directory: name -> content
    target_exists,  \* whether the target directory exists
    record_file,    \* the run record: <<>> (no file) or <<payload>>
    pc,             \* position of main()
    run,            \* number of the current invocation
    source,         \* result of resolve_source_dir
    index,          \* result of load_manifest_index
    files,          \* result of ordered_source_videos
    pos,            \* position of the loop over files
    synced,         \* the list of results of sync_videos
    cur,            \* locals of the loop body for the current file
    log,            \* the operations on the current file of the loop, in order
    start,          \* the target directory and record at the start of this invocation
    prev_done       \* whether the previous invocation ran to completion

vars == << source_root, subdirs, manifest_file, args, target, target_exists, record_file,
           pc, run, source, index, files, pos, synced, cur, log, start, prev_done >>

inputs == << source_root, subdirs, manifest_file, args >>

(***************************************************************************)
(* Inputs of the model: source trees, manifests, target directories        *)
(***************************************************************************)

MaxRuns == 2
MaxLimit == 1

File(n, t) == [name |-> n, kind |-> "file", mtime |-> t]
Dir(n) == [name |-> n, kind |-> "dir", mtime |-> 0]
Item(a, t, th, c) == [asset_id |-> a, title |-> t, thumbnail |-> th, candidates |-> c]

NameA == <<"a">> \o DotMp4
NameAwm == <<"a">> \o WmSuffix \o DotMp4
NameB == <<"b">> \o DotMp4
NameNotes == <<"n", "o", "t", "e", "s">> \o DotTxt
Day1 == <<"2", "0", "2", "4", "0", "1", "0", "1">>
Day2 == <<"2", "0", "2", "4", "0", "1", "0", "2">>
Root == <<"r", "o", "o", "t">>
Url1 == Http \o <<":">> \o Thumbnail \o <<"1">>
Url2 == Http \o <<":">> \o Thumbnail \o <<"2">>

\* A flat root (two files share a modification time), a root with two daily
\* folders, a root with nothing to sync, a root with only a marked variant.
SourceTrees ==
    { [root |-> << File(NameAwm, 2), File(NameB, 2) >>, subdirs |-> <<>>],
      [root |-> << Dir(Day1), Dir(Day2), File(NameA, 1) >>,
       subdirs |-> (Day1 :> << File(NameB, 1) >>) @@ (Day2 :> << File(NameAwm, 1), File(NameA, 2) >>)],
      [root |-> << File(NameNotes, 1) >>, subdirs |-> <<>>],
      [root |-> << File(NameAwm, 1) >>, subdirs |-> <<>>] }

ManifestFiles ==
    { [kind |-> "missing", entries |-> <<>>],
      [kind |-> "invalid", entries |-> <<>>],
      [kind |-> "object", entries |-> <<>>],
      \* a is listed twice: the later item, with a blank title and only a candidate
      \* URL, replaces the earlier one in the index; b has a title to trim and a
      \* thumbnail that only the replaced item of a shares
      [kind |-> "array", entries |->
          << Item(<<"a">>, <<"T">>, Url1, <<>>),
             Item(<<"a">>, <<" ">>, <<>>, << <<"x">>, Url2 >>),
             Item(<<"b">>, <<" ", "B", "\n", "b", " ">>, <<" ">> \o Url1, <<>>) >>],
      \* a and b share one thumbnail URL
      [kind |-> "array", entries |->
          << Item(<<"a">>, <<"T">>, Url1, <<>>),
             Item(<<"b">>, <<>>, Url1 \o <<" ">>, <<>>) >>] }

Old == <<"old">>
VideoContent(name) == <<"video">> \o name
SidecarContent(title) == title \o <<"\n", "#", "s", "o", "r", "a", "\n">>
ThumbContent(url) == <<"thumb">> \o url
FrameContent(name) == <<"frame">> \o name

\* Target directories a run may find: absent; a video synced earlier, with its
\* sidecar and cover; a cover left without its video and a video without cover.
Targets ==
    { [exists |-> FALSE, files |-> <<>>],
      [exists |-> TRUE, files |->
          (NameA :> Old) @@ (WithSuffix(NameA, DotTxt) :> Old) @@ (WithSuffix(NameA, DotPng) :> Old)],
      [exists |-> TRUE, files |-> (WithSuffix(NameAwm, DotPng) :> Old) @@ (NameB :> Old)] }

ArgSets ==
    [date : {<<>>, Root, Day1},
     video_variant : {"all", "main_only", "wm_only"},
     limit : 0..MaxLimit,
     overwrite : BOOLEAN,
     cover_strategy : {"auto", "manifest", "frame"}]

NoSource == [ok |-> FALSE, dir |-> <<>>, mode |-> "", err |-> ""]
NoIndex == load_manifest_index([kind |-> "missing", entries |-> <<>>])
NoCur ==
    [name |-> <<>>, asset_id |-> <<>>, title |-> <<>>, thumbnail_url |-> <<>>,
     is_duplicate_thumb |-> FALSE, thumbnail_file |-> <<>>,
     cover_source |-> "none", cover_reason |-> "none"]

Snapshot == [target |-> target, target_exists |-> target_exists, record_file |-> record_file]

Event(op, arg) == [op |-> op, arg |-> arg]

Init ==
    /\ \E t \in SourceTrees : source_root = t.root /\ subdirs = t.subdirs
    /\ manifest_file \in ManifestFiles
    /\ args \in ArgSets
    /\ \E g \in Targets : target = g.files /\ target_exists = g.exists
    /\ record_file = <<>>
    /\ pc = "main"
    /\ run = 1
    /\ source = NoSource
    /\ index = NoIndex
    /\ files = <<>>
    /\ pos = 1
    /\ synced = <<>>
    /\ cur = NoCur
    /\ log = <<>>
    /\ start = [target |-> target, target_exists |-> target_exists, record_file |-> <<>>]
    /\ prev_done = FALSE

(***************************************************************************)
(* main() and sync_videos(), one action per step                           *)
(***************************************************************************)

\* The entries of the resolved source directory
SourceDirEntries == IF source.dir = <<>> THEN source_root ELSE subdirs[source.dir[1]]

CoverName(name) == PathStem(name) \o DotPng
TxtName(name) == WithSuffix(name, DotTxt)

\* main(): source_dir, source_mode = resolve_source_dir(...); an exception ends the run
Resolve ==
    /\ pc = "main"
    /\ source' = resolve_source_dir(source_root, args.date, args.video_variant)
    /\ pc' = IF source'.ok THEN "sync_videos" ELSE "error"
    /\ UNCHANGED << inputs, target, target_exists, record_file, run, index, files, pos,
                    synced, cur, log, start, prev_done >>

\* sync_videos(): load the manifest (an exception ends the run), select the
\* files, create the target directory
BeginSync ==
    /\ pc = "sync_videos"
    /\ index' = load_manifest_index(manifest_file)
    /\ IF index'.raised
         THEN /\ pc' = "error"
              /\ UNCHANGED << files, target_exists >>
         ELSE /\ files' = ordered_source_videos(SourceDirEntries, index'.entries, args.limit,
                                                args.video_variant, source.mode)
              /\ target_exists' = TRUE
              /\ pc' = "loop"
    /\ pos' = 1
    /\ synced' = <<>>
    /\ UNCHANGED << inputs, target, record_file, run, source, cur, log, start, prev_done >>

\* Mutant: the existence check is lost, every selected file is copied
ShouldSkip_Never(name) == FALSE

\* Mutant: the overwrite flag is read the wrong way round
ShouldSkip_WhenOverwrite(name) == name \in DOMAIN target /\ args.overwrite

\* if dst.exists() and not overwrite
ShouldSkip(name) == name \in DOMAIN target /\ ~args.overwrite

\* for src in files: if dst.exists() and not overwrite: continue
SkipExisting ==
    /\ pc = "loop"
    /\ pos <= Len(files)
    /\ ShouldSkip(files[pos].name)
    /\ pos' = pos + 1
    /\ log' = << Event("skip", files[pos].name) >>
    /\ UNCHANGED << inputs, target, target_exists, record_file, pc, run, source, index, files,
                    synced, cur, start, prev_done >>

\* The locals the loop body sets before the cover is resolved
BodyLocals(name) ==
    LET asset_id == normalized_asset_id_from_video(name)
        has_item == asset_id \in DOMAIN index.by_asset
        thumbnail_url == IF has_item THEN pick_thumbnail_url(index.by_asset[asset_id]) ELSE <<>>
    IN  [name |-> name,
         asset_id |-> asset_id,
         title |-> title_for_file(name, index.by_asset),
         thumbnail_url |-> thumbnail_url,
         is_duplicate_thumb |-> /\ thumbnail_url # <<>>
                                /\ thumbnail_url \in DOMAIN index.thumb_counts
                                /\ index.thumb_counts[thumbnail_url] > 1,
         thumbnail_file |-> <<>>,
         cover_source |-> "none",
         cover_reason |-> "none"]

\* Mutant: the video is moved to the target instead of copied
CopyVideo_Move ==
    /\ pc = "loop"
    /\ pos <= Len(files)
    /\ ~ShouldSkip(files[pos].name)
    /\ LET name == files[pos].name
           others(entries) == SelectSeq(entries, LAMBDA p : p.name # name)
       IN  /\ cur' = BodyLocals(name)
           /\ target' = (TxtName(name) :> SidecarContent(cur'.title))
                        @@ (name :> VideoContent(name)) @@ target
           /\ log' = << Event("copy", name), Event("sidecar", name) >>
           /\ IF source.dir = <<>>
                THEN source_root' = others(source_root) /\ UNCHANGED subdirs
              ELSE subdirs' = [subdirs EXCEPT ![source.dir[1]] = others(@)]
                   /\ UNCHANGED source_root
    /\ pc' = "cover"
    /\ UNCHANGED << manifest_file, args, target_exists, record_file, run, source, index, files,
                    pos, synced, start, prev_done >>

\* shutil.copy2(src, dst); write the sidecar; set the locals
CopyVideo ==
    /\ pc = "loop"
    /\ pos <= Len(files)
    /\ ~ShouldSkip(files[pos].name)
    /\ LET name == files[pos].name
       IN  /\ cur' = BodyLocals(name)
           /\ target' = (TxtName(name) :> SidecarContent(cur'.title))
                        @@ (name :> VideoContent(name)) @@ target
           /\ log' = << Event("copy", name), Event("sidecar", name) >>
    /\ pc' = "cover"
    /\ UNCHANGED << inputs, target_exists, record_file, run, source, index, files, pos,
                    synced, start, prev_done >>

\* Mutant: the copy error is swallowed and the loop goes on with the next file
CopyFails_Continues ==
    /\ pc = "loop"
    /\ pos <= Len(files)
    /\ ~ShouldSkip(files[pos].name)
    /\ log' = << Event("copy_failed", files[pos].name) >>
    /\ pos' = pos + 1
    /\ UNCHANGED << inputs, target, target_exists, record_file, pc, run, source, index, files,
                    synced, cur, start, prev_done >>

\* shutil.copy2 raises before the destination is written
CopyFails ==
    /\ pc = "loop"
    /\ pos <= Len(files)
    /\ ~ShouldSkip(files[pos].name)
    /\ log' = << Event("copy_failed", files[pos].name) >>
    /\ pc' = "error"
    /\ UNCHANGED << inputs, target, target_exists, record_file, run, source, index, files, pos,
                    synced, cur, start, prev_done >>

\* open(txt_path, "w") raises after the video was copied
SidecarFails ==
    /\ pc = "loop"
    /\ pos <= Len(files)
    /\ ~ShouldSkip(files[pos].name)
    /\ target' = (files[pos].name :> VideoContent(files[pos].name)) @@ target
    /\ log' = << Event("copy", files[pos].name), Event("sidecar_failed", files[pos].name) >>
    /\ pc' = "error"
    /\ UNCHANGED << inputs, target_exists, record_file, run, source, index, files, pos,
                    synced, cur, start, prev_done >>

\* Mutant: the except clause swallows the error without recording a reason
AfterDownload_NoReason(c, cover, r) ==
    IF r.raised THEN c
    ELSE [c EXCEPT !.thumbnail_file = cover, !.cover_source = "manifest"]

\* Mutant: a successful download sets the source but not the file
AfterDownload_NoFile(c, cover, r) ==
    IF r.raised
      THEN [c EXCEPT !.cover_reason = "thumbnail_download_failed"]
    ELSE [c EXCEPT !.cover_source = "manifest"]

\* What try_manifest_cover() leaves in the locals after download_thumbnail_image
\* returned r (the except clause sets the reason)
AfterDownload(c, cover, r) ==
    IF r.raised
      THEN [c EXCEPT !.cover_reason = "thumbnail_download_failed"]
    ELSE [c EXCEPT !.thumbnail_file = cover, !.cover_source = "manifest"]

\* Mutant: the frame attempt replaces a reason the manifest attempt had set
AfterExtract_ReplacesReason(c, cover, r) ==
    IF r.ok
      THEN [c EXCEPT !.thumbnail_file = cover,
                     !.cover_source = "frame",
                     !.cover_reason = "cover_strategy_frame"]
    ELSE [c EXCEPT !.cover_reason = "frame_extract_failed"]

\* What try_frame_cover() leaves in the locals after extract_cover_frame returned r
AfterExtract(c, cover, r) ==
    IF r.ok
      THEN [c EXCEPT !.thumbnail_file = cover,
                     !.cover_source = "frame",
                     !.cover_reason = IF @ = "none" THEN "cover_strategy_frame" ELSE @]
    ELSE [c EXCEPT !.cover_reason = IF @ = "none" THEN "frame_extract_failed" ELSE @]

NetAnswers == [urlopen : [1..PrimaryAttempts -> BOOLEAN], curl : BOOLEAN, image : BOOLEAN]

Repeat(e, n) == [k \in 1..n |-> e]

\* try_manifest_cover(), called under strategy manifest and, first, under auto
TryManifestCover ==
    /\ pc = "cover"
    /\ args.cover_strategy # "frame"
    /\ LET cover == CoverName(cur.name)
           called == Event("try_manifest_cover", cur.name)
       IN  IF cur.thumbnail_url = <<>>
             THEN /\ cur' = [cur EXCEPT !.cover_reason = "no_thumbnail_url"]
                  /\ log' = Append(log, called)
                  /\ UNCHANGED target
           ELSE IF cur.is_duplicate_thumb
             THEN /\ cur' = [cur EXCEPT !.cover_reason = "thumbnail_url_duplicated_in_manifest"]
                  /\ log' = Append(log, called)
                  /\ UNCHANGED target
           ELSE \E net \in NetAnswers :
                  LET r == download_thumbnail_image(cover \in DOMAIN target, args.overwrite, net)
                  IN  /\ log' = log \o << called >>
                                    \o [i \in 1..Len(r.trace) |->
                                           Event(r.trace[i], cur.thumbnail_url)]
                      /\ target' = IF r.wrote
                                     THEN (cover :> ThumbContent(cur.thumbnail_url)) @@ target
                                   ELSE target
                      /\ cur' = AfterDownload(cur, cover, r)
    /\ pc' = IF args.cover_strategy = "auto" /\ cur'.cover_source # "manifest"
               THEN "frame" ELSE "append"
    /\ UNCHANGED << inputs, target_exists, record_file, run, source, index, files, pos,
                    synced, start, prev_done >>

\* try_frame_cover(), called under strategy frame and, under auto, after
\* try_manifest_cover() returned False
TryFrameCover ==
    /\ \/ pc = "cover" /\ args.cover_strategy = "frame"
       \/ pc = "frame"
    /\ \E ffmpeg \in [1..FrameAttempts -> BOOLEAN] :
         LET cover == CoverName(cur.name)
             r == extract_cover_frame(cover \in DOMAIN target, args.overwrite, ffmpeg)
         IN  /\ log' = log \o << Event("try_frame_cover", cur.name) >>
                           \o Repeat(Event("ffmpeg", cur.name), r.ffmpegs)
             /\ target' = IF r.wrote THEN (cover :> FrameContent(cur.name)) @@ target ELSE target
             /\ cur' = AfterExtract(cur, cover, r)
    /\ pc' = "append"
    /\ UNCHANGED << inputs, target_exists, record_file, run, source, index, files, pos,
                    synced, start, prev_done >>

SyncResult(c) ==
    [name |-> c.name, asset_id |-> c.asset_id, mp4 |-> c.name, txt |-> TxtName(c.name),
     title |-> c.title, thumbnail_url |-> c.thumbnail_url, thumbnail_file |-> c.thumbnail_file,
     cover_source |-> c.cover_source, cover_reason |-> c.cover_reason]

\* Mutant: the result is inserted at the front of the list
AppendResult_Prepend ==
    /\ pc = "append"
    /\ synced' = << SyncResult(cur) >> \o synced
    /\ log' = Append(log, Event("synced", cur.name))
    /\ pos' = pos + 1
    /\ cur' = NoCur
    /\ pc' = "loop"
    /\ UNCHANGED << inputs, target, target_exists, record_file, run, source, index, files,
                    start, prev_done >>

\* synced.append({...})
AppendResult ==
    /\ pc = "append"
    /\ synced' = Append(synced, SyncResult(cur))
    /\ log' = Append(log, Event("synced", cur.name))
    /\ pos' = pos + 1
    /\ cur' = NoCur
    /\ pc' = "loop"
    /\ UNCHANGED << inputs, target, target_exists, record_file, run, source, index, files,
                    start, prev_done >>

\* Mutant: the record is only written when something was synced
WriteRecord_OnlyIfSynced ==
    /\ pc = "loop"
    /\ pos > Len(files)
    /\ record_file' = IF synced = <<>> THEN record_file
                      ELSE << [created_at |-> run, source_dir |-> source.dir,
                               source_mode |-> source.mode, video_variant |-> args.video_variant,
                               synced_count |-> Len(synced), synced_files |-> synced] >>
    /\ log' = << Event("write_record", <<>>) >>
    /\ pc' = "done"
    /\ UNCHANGED << inputs, target, target_exists, run, source, index, files, pos,
                    synced, cur, start, prev_done >>

\* return synced; write_record(...)
WriteRecord ==
    /\ pc = "loop"
    /\ pos > Len(files)
    /\ record_file' = << [created_at |-> run, source_dir |-> source.dir,
                          source_mode |-> source.mode, video_variant |-> args.video_variant,
                          synced_count |-> Len(synced), synced_files |-> synced] >>
    /\ log' = << Event("write_record", <<>>) >>
    /\ pc' = "done"
    /\ UNCHANGED << inputs, target, target_exists, run, source, index, files, pos,
                    synced, cur, start, prev_done >>

\* The next invocation, with the same command line on the same source tree
NextRun ==
    /\ pc \in {"done", "error"}
    /\ run < MaxRuns
    /\ run' = run + 1
    /\ prev_done' = (pc = "done")
    /\ start' = Snapshot
    /\ pc' = "main"
    /\ source' = NoSource
    /\ index' = NoIndex
    /\ files' = <<>>
    /\ pos' = 1
    /\ synced' = <<>>
    /\ cur' = NoCur
    /\ log' = <<>>
    /\ UNCHANGED << inputs, target, target_exists, record_file >>

Next ==
    \/ Resolve
    \/ BeginSync
    \/ SkipExisting
    \/ CopyVideo
    \/ CopyFails
    \/ SidecarFails
    \/ TryManifestCover
    \/ TryFrameCover
    \/ AppendResult
    \/ WriteRecord
    \/ NextRun

Spec == Init /\ [][Next]_vars

(***************************************************************************)
(* resolve_source_dir on its own: every root listing drawn from               *)
(* RootCandidates, every date token of DateArgs, every variant                *)
(***************************************************************************)

NameC == <<"c">> \o DotMp4
DayFile == <<"2", "0", "2", "4", "0", "1", "0", "9">>
Year == <<"2", "0", "2", "4">>
NineDigits == Day2 \o <<"0">>
EightChars == <<"2", "0", "2", "4", "0", "1", "0", "x">>

\* Daily folders, a file with a daily name, directories whose names are not
\* eight digits, videos, and a directory with a video's name.
RootCandidates ==
    << Dir(Day1), Dir(Day2), File(DayFile, 1), Dir(Year), Dir(NineDigits), Dir(EightChars),
       File(NameA, 1), File(NameAwm, 1), Dir(NameC) >>

\* The entries of seq at the positions in S, in the order of seq
RECURSIVE Pick(_, _)
Pick(seq, S) ==
    IF seq = <<>> THEN <<>>
    ELSE Pick(SubSeq(seq, 1, Len(seq) - 1), S)
             \o (IF Len(seq) \in S THEN << seq[Len(seq)] >> ELSE <<>>)

DateArgs ==
    { <<>>, Latest, <<" ", "L", "A", "T", "E", "S", "T", " ">>, Root, <<"F", "l", "a", "t">>,
      <<".">>, Day1, <<" ">> \o Day2, Year, EightChars }

InitResolve ==
    /\ \E S \in SUBSET (1..Len(RootCandidates)) : source_root = Pick(RootCandidates, S)
    /\ subdirs = [d \in {source_root[i].name : i \in {j \in 1..Len(source_root) : source_root[j].kind = "dir"}}
                    |-> <<>>]
    /\ manifest_file = [kind |-> "missing", entries |-> <<>>]
    /\ args \in [date : DateArgs, video_variant : {"all", "main_only", "wm_only"},
                 limit : {0}, overwrite : {FALSE}, cover_strategy : {"auto"}]
    /\ target = <<>>
    /\ target_exists = FALSE
    /\ record_file = <<>>
    /\ pc = "main"
    /\ run = 1
    /\ source = NoSource
    /\ index = NoIndex
    /\ files = <<>>
    /\ pos = 1
    /\ synced = <<>>
    /\ cur = NoCur
    /\ log = <<>>
    /\ start = [target |-> <<>>, target_exists |-> FALSE, record_file |-> <<>>]
    /\ prev_done = FALSE

SpecResolve == InitResolve /\ [][Resolve]_vars

(***************************************************************************)
(* ordered_source_videos on its own: every enumeration order of every set   *)
(* of files with modification times up to MaxMtime, every manifest of up to *)
(* MaxEntries entries, both modes, every variant and limit                  *)
(***************************************************************************)

MaxMtime == 2
MaxEntries == 2

SelNames == {NameA, NameAwm, NameB}
SelEntries == {File(n, t) : n \in SelNames, t \in 1..MaxMtime}

\* The directory listings: sequences of entries with distinct names
Listings ==
    {l \in UNION {[1..k -> SelEntries] : k \in 0..Cardinality(SelNames)} :
        \A i, j \in 1..Len(l) : l[i].name = l[j].name => i = j}

\* Asset ids: plain, with the marker suffix, and with a blank to strip
SelIds == { <<"a">>, <<"b">>, <<"a">> \o WmSuffix, <<" ", "a">> }

SelManifests ==
    {[kind |-> "array", entries |-> [i \in 1..Len(ids) |-> Item(ids[i], <<>>, <<>>, <<>>)]] :
        ids \in UNION {[1..k -> SelIds] : k \in 0..MaxEntries}}

InitSelect ==
    /\ args \in [date : {<<>>}, video_variant : {"all", "main_only", "wm_only"},
                 limit : 0..MaxLimit, overwrite : {FALSE}, cover_strategy : {"auto"}]
    /\ \E l \in Listings :
          \/ /\ list_syncable_videos(l, args.video_variant) # <<>>
             /\ source_root = l
             /\ subdirs = <<>>
             /\ source = Found(<<>>, "flat")
          \/ /\ source_root = << Dir(Day1) >>
             /\ subdirs = (Day1 :> l)
             /\ source = Found(<<Day1>>, "daily")
    /\ manifest_file \in SelManifests
    /\ target = <<>>
    /\ target_exists = FALSE
    /\ record_file = <<>>
    /\ pc = "sync_videos"
    /\ run = 1
    /\ index = NoIndex
    /\ files = <<>>
    /\ pos = 1
    /\ synced = <<>>
    /\ cur = NoCur
    /\ log = <<>>
    /\ start = [target |-> <<>>, target_exists |-> FALSE, record_file |-> <<>>]
    /\ prev_done = FALSE

SpecSelect == InitSelect /\ [][BeginSync]_vars

(***************************************************************************)
(* Properties                                                              *)
(***************************************************************************)

LogOps == {log[i].op : i \in 1..Len(log)}

\* The operations that copy a video, write a sidecar, fetch a URL or extract a frame
WritingOps == {"copy", "sidecar", "urlopen", "curl", "ffmpeg"}

\* C1: after a run with overwrite=false has completed, the next run with the
\* same source tree, manifest, target directory and arguments copies no file,
\* emits no SyncResult and leaves every file of the target directory as it was.
C1_IdempotentRerun ==
    (run > 1 /\ prev_done /\ ~args.overwrite) =>
        /\ synced = <<>>
        /\ LogOps \cap WritingOps = {}
        /\ cur = NoCur
        /\ target = start.target

\* C1 witness: a second run has skipped two videos the first run copied.
C1_Witness ==
    /\ run > 1 /\ prev_done /\ ~args.overwrite /\ pc = "done"
    /\ Len(files) = 2
    /\ \A k \in 1..Len(files) : target[files[k].name] = VideoContent(files[k].name)
    /\ record_file[1].synced_count = 0

\* The asset ids of the manifest index whose item resolves to thumbnail url:
\* for each asset id the last manifest entry of that id counts.
C2_AssetsResolvingTo(url) ==
    LET es == manifest_file.entries
        last(a) == es[SetMax({i \in 1..Len(es) : es[i].asset_id = a})]
    IN  {a \in {es[i].asset_id : i \in 1..Len(es)} \ {<<>>} : pick_thumbnail_url(last(a)) = url}

C2_Duplicated(url) == url # <<>> /\ Cardinality(C2_AssetsResolvingTo(url)) >= 2

\* C2: under strategy auto or manifest, a thumbnail URL that two or more
\* distinct asset ids of the manifest index resolve to is never fetched and
\* never becomes a cover: the result never has cover_source = manifest, the
\* manifest cover is skipped with reason thumbnail_url_duplicated_in_manifest,
\* and under auto the frame cover is then tried.
C2_DuplicateThumbnailNeverUsed ==
    args.cover_strategy \in {"auto", "manifest"} =>
        /\ \A k \in 1..Len(synced) :
              C2_Duplicated(synced[k].thumbnail_url) =>
                  /\ synced[k].cover_source # "manifest"
                  /\ synced[k].cover_reason = "thumbnail_url_duplicated_in_manifest"
        /\ C2_Duplicated(cur.thumbnail_url) =>
              /\ LogOps \cap {"urlopen", "curl"} = {}
              /\ cur.cover_source # "manifest"
              /\ CoverName(cur.name) \in DOMAIN target =>
                     target[CoverName(cur.name)] # ThumbContent(cur.thumbnail_url)
              /\ pc \in {"frame", "append"} =>
                     cur.cover_reason = "thumbnail_url_duplicated_in_manifest"
              /\ (pc = "append" /\ args.cover_strategy = "auto") =>
                     "try_frame_cover" \in LogOps

\* C2 witness: under auto, a video with a duplicated thumbnail got a frame cover.
C2_Witness ==
    /\ pc = "append" /\ args.cover_strategy = "auto"
    /\ C2_Duplicated(cur.thumbnail_url)
    /\ cur.cover_source = "frame"
    /\ cur.cover_reason = "thumbnail_url_duplicated_in_manifest"
    /\ "ffmpeg" \in LogOps

\* The title of the manifest index for an asset id, trimmed, with line breaks
\* replaced by spaces; empty when the index has no item or no title for it.
C3_ManifestTitle(asset_id) ==
    LET es == manifest_file.entries
        at == {i \in 1..Len(es) : es[i].asset_id = asset_id}
    IN  IF manifest_file.kind # "array" \/ at = {} THEN <<>>
        ELSE Strip(ReplaceChar(ReplaceChar(Strip(es[SetMax(at)].title), "\r", " "), "\n", " "))

\* C3 as stated: the title written to the sidecar and recorded in the result
\* is the manifest title of the video's asset id when that is non-empty, and
\* otherwise the video's filename stem.
C3_TitleOrFilenameStem ==
    \A k \in 1..Len(synced) :
        LET r == synced[k]
            t == C3_ManifestTitle(normalized_asset_id_from_video(r.name))
        IN  /\ r.title = IF t # <<>> THEN t ELSE PathStem(r.name)
            /\ target[TxtName(r.name)] = SidecarContent(r.title)

\* C3 amended: ... and otherwise the video's asset id, which is the filename
\* stem without a trailing _wm marker (a_wm.mp4 gets the title a).
C3_TitleOrAssetId ==
    \A k \in 1..Len(synced) :
        LET r == synced[k]
            stem == PathStem(r.name)
            asset_id == IF is_wm_video_file(r.name) THEN SubSeq(stem, 1, Len(stem) - 3) ELSE stem
            t == C3_ManifestTitle(asset_id)
        IN  /\ r.title = IF t # <<>> THEN t ELSE asset_id
            /\ target[TxtName(r.name)] = SidecarContent(r.title)

\* C3 witness: with no manifest, a_wm.mp4 was synced with the title a.
C3_Witness ==
    /\ manifest_file.kind = "missing"
    /\ \E k \in 1..Len(synced) :
          /\ synced[k].name = NameAwm
          /\ synced[k].title = <<"a">>
          /\ target[TxtName(NameAwm)] = <<"a", "\n", "#", "s", "o", "r", "a", "\n">>

\* The cases in which source resolution has to fail: a flat-root token with no
\* syncable video under the root for the active variant, latest with neither
\* daily folders nor flat videos, an explicit date with no such folder.
C4_MustFail ==
    LET date_value == Strip(IF args.date = <<>> THEN Latest ELSE args.date)
        token == Lower(date_value)
        entries == {source_root[i] : i \in 1..Len(source_root)}
        wanted(p) == /\ p.kind = "file" /\ EndsWith(p.name, DotMp4)
                     /\ args.video_variant = "main_only" => ~is_wm_video_file(p.name)
                     /\ args.video_variant = "wm_only" => is_wm_video_file(p.name)
        videos == \E p \in entries : wanted(p)
        dailies == \E p \in entries : p.kind = "dir" /\ Len(p.name) = 8 /\ IsDigit(p.name)
    IN  \/ token \in FlatTokens /\ ~videos
        \/ token = Latest /\ ~dailies /\ ~videos
        \/ /\ token \notin FlatTokens \cup {Latest}
           /\ date_value # <<>>
           /\ ~\E p \in entries : p.kind = "dir" /\ p.name = date_value

\* C4: whenever source resolution fails, the run ends with an error before
\* any side effect: nothing is copied, no sidecar or cover is written, the
\* target directory is not created and no run record is written.
C4_ResolutionFailureHasNoEffect ==
    (C4_MustFail /\ pc # "main") =>
        /\ pc = "error" /\ ~source.ok
        /\ log = <<>> /\ synced = <<>>
        /\ target = start.target
        /\ target_exists = start.target_exists
        /\ record_file = start.record_file

\* C4 witness: the flat-root token on a root without videos ended the run,
\* with no target directory and no record.
C4_Witness ==
    /\ pc = "error"
    /\ source.err = "no_syncable_videos_under_source_root"
    /\ ~target_exists
    /\ record_file = <<>>

\* C5: a selected video whose destination mp4 exists when its turn comes, with
\* overwrite=false, is not copied, gets no sidecar, no cover resolution and no
\* SyncResult, is absent from the run record, and its destination mp4, sidecar
\* and cover stay as they were.
C5_SkippedFileUntouched ==
    ~args.overwrite =>
        \A k \in 1..Len(files) :
            LET n == files[k].name
            IN  n \in DOMAIN start.target =>
                  /\ \A j \in 1..Len(synced) : synced[j].name # n
                  /\ cur.name # n
                  /\ \A i \in 1..Len(log) : log[i].arg = n => log[i].op = "skip"
                  /\ target[n] = start.target[n]
                  /\ \A f \in {TxtName(n), CoverName(n)} :
                        /\ f \in DOMAIN target <=> f \in DOMAIN start.target
                        /\ f \in DOMAIN target => target[f] = start.target[f]
                  /\ pc = "done" =>
                        \A j \in 1..Len(record_file[1].synced_files) :
                            record_file[1].synced_files[j].name # n

\* C5 witness: a run synced one video and skipped another that was already
\* in the target directory.
C5_Witness ==
    /\ ~args.overwrite /\ pc = "done" /\ run = 1
    /\ Len(files) = 2 /\ Len(synced) = 1
    /\ \E k \in 1..Len(files) : files[k].name \in DOMAIN start.target
    /\ record_file[1].synced_count = 1

C7_ManifestReasons ==
    {"no_thumbnail_url", "thumbnail_url_duplicated_in_manifest", "thumbnail_download_failed"}

\* C7: a cover failure never aborts the run: every video copied so far has
\* exactly one SyncResult, a result without cover names the failure in
\* cover_reason, a failed manifest attempt leaves its reason in cover_reason,
\* and the run ends in an error only through source resolution, the manifest
\* load, the copy or the sidecar write.
C7_CoverFailureNeverAborts ==
    /\ \A k \in 1..Len(files) :
          LET copied == files[k].name \notin DOMAIN start.target \/ args.overwrite
              results == {j \in 1..Len(synced) : synced[j].name = files[k].name}
          IN  Cardinality(results) = IF k < pos /\ copied THEN 1 ELSE 0
    /\ \A j \in 1..Len(synced) :
          synced[j].cover_source = "none" =>
              /\ synced[j].cover_reason \in C7_ManifestReasons \cup {"frame_extract_failed"}
              /\ synced[j].thumbnail_file = <<>>
    /\ (pc \in {"frame", "append"} /\ "try_manifest_cover" \in LogOps
            /\ cur.cover_source # "manifest") =>
          /\ cur.cover_reason \in C7_ManifestReasons
          /\ "urlopen" \in LogOps => cur.cover_reason = "thumbnail_download_failed"
    /\ (pc = "append" /\ args.cover_strategy = "frame" /\ cur.cover_source = "none") =>
          cur.cover_reason = "frame_extract_failed"
    /\ pc = "error" =>
          \/ ~source.ok
          \/ index.raised
          \/ LogOps \cap {"copy_failed", "sidecar_failed"} # {}

\* C7 witness: the first video's thumbnail download failed and left it without
\* cover; the run went on, synced the second video and wrote the record.
C7_Witness ==
    /\ pc = "done" /\ Len(synced) = 2
    /\ synced[1].cover_source = "none"
    /\ synced[1].cover_reason = "thumbnail_download_failed"
    /\ record_file[1].synced_count = 2

\* The current video's cover file was in the target directory when the run
\* started, and overwrite=false.
C8_CoverExisted ==
    /\ pc = "append" /\ ~args.overwrite
    /\ CoverName(cur.name) \in DOMAIN start.target

C9_ManifestTroubleIsNotAnError ==
    (manifest_file.kind \in {"missing", "invalid"} /\ source.ok
            /\ pc \notin {"main", "sync_videos"}) =>
        /\ ~index.raised
        /\ index.entries = <<>>
        /\ DOMAIN index.by_asset = {} /\ DOMAIN index.thumb_counts = {}
        /\ pc = "error" => LogOps \cap {"copy_failed", "sidecar_failed"} # {}
        /\ \A j \in 1..Len(synced) :
              /\ synced[j].title = synced[j].asset_id
              /\ synced[j].cover_source # "manifest"

\* The expected filenames of a manifest entry's asset id under the variant filter
C6_Expected(asset_id) ==
    CASE args.video_variant = "main_only" -> << asset_id \o DotMp4 >>
      [] args.video_variant = "wm_only" -> << asset_id \o WmSuffix \o DotMp4 >>
      [] OTHER -> << asset_id \o DotMp4, asset_id \o WmSuffix \o DotMp4 >>

\* The places (entry, candidate) at which the manifest expects filename n,
\* numbered in manifest order, primary before marked variant
C6_Places(n) ==
    LET es == manifest_file.entries
        expects(i, j) ==
            /\ Strip(es[i].asset_id) # <<>>
            /\ j <= Len(C6_Expected(Strip(es[i].asset_id)))
            /\ C6_Expected(Strip(es[i].asset_id))[j] = n
    IN  {2 * pl[1] + pl[2] : pl \in {q \in (1..Len(es)) \X (1..2) : expects(q[1], q[2])}}

\* C6: in flat mode every selected video that matches an expected filename of
\* a manifest entry precedes every video no entry matches; the matched videos
\* are in manifest order (first occurrence of each asset id, primary before
\* marked variant), the unmatched ones in descending modification time.
C6_FlatSelectionOrder ==
    (pc = "loop" /\ source.mode = "flat") =>
        \A x, y \in 1..Len(files) :
            LET px == C6_Places(files[x].name)
                py == C6_Places(files[y].name)
            IN  /\ (px # {} /\ py = {}) => x < y
                /\ (x < y /\ px # {} /\ py # {}) => SetMin(px) < SetMin(py)
                /\ (x < y /\ px = {} /\ py = {}) => files[x].mtime >= files[y].mtime

\* C6 witness: b.mp4 is the newest file and is enumerated first, yet a.mp4 and
\* a_wm.mp4, which the manifest lists, are selected before it.
C6_Witness ==
    /\ pc = "loop" /\ source.mode = "flat"
    /\ Len(files) = 3
    /\ source_root[1].name = NameB
    /\ files[1].name = NameA /\ files[2].name = NameAwm /\ files[3].name = NameB
    /\ files[3].mtime > files[1].mtime

\* C10: with the latest token, if the root has a subdirectory whose name is
\* exactly 8 digits the result is the one with the greatest name, in dated
\* mode; only if there is none it is the root in flat mode, and only if the
\* root holds a syncable video for the variant; otherwise resolution fails.
C10_LatestResolution ==
    (pc # "main" /\ Lower(Strip(IF args.date = <<>> THEN Latest ELSE args.date)) = Latest) =>
        LET entries == {source_root[i] : i \in 1..Len(source_root)}
            dailies == {p.name : p \in {q \in entries :
                            q.kind = "dir" /\ Len(q.name) = 8 /\ \A i \in 1..8 : q.name[i] \in Digits}}
            wanted(p) == /\ p.kind = "file" /\ EndsWith(p.name, DotMp4)
                         /\ args.video_variant = "main_only" => ~is_wm_video_file(p.name)
                         /\ args.video_variant = "wm_only" => is_wm_video_file(p.name)
        IN  IF dailies # {}
              THEN /\ source.ok /\ source.mode = "daily" /\ pc = "sync_videos"
                   /\ Len(source.dir) = 1 /\ source.dir[1] \in dailies
                   /\ \A d \in dailies : d = source.dir[1] \/ StrLess(d, source.dir[1])
            ELSE IF \E p \in entries : wanted(p)
              THEN source.ok /\ source.mode = "flat" /\ source.dir = <<>> /\ pc = "sync_videos"
            ELSE ~source.ok /\ pc = "error"

\* C10 witness: with two daily folders and videos under the root, latest
\* resolved to the later folder.
C10_Witness ==
    /\ pc = "sync_videos" /\ args.date = <<" ", "L", "A", "T", "E", "S", "T", " ">>
    /\ source.dir = <<Day2>> /\ source.mode = "daily"
    /\ \E i, j, k \in 1..Len(source_root) :
          /\ source_root[i].name = Day1 /\ source_root[j].name = NineDigits
          /\ source_root[k].name = NameA

\* C11: no step of a run, whatever its outcome and overwrite setting, changes
\* the entries of the source root or of its folders, or the manifest: sources
\* are copied, never moved, deleted or rewritten.
C11_SourcesReadOnly ==
    [][source_root' = source_root /\ subdirs' = subdirs /\ manifest_file' = manifest_file]_vars

\* C11 witness: with overwrite set a video was copied over an existing one and
\* the run then aborted on a sidecar write error, the source video still listed.
C11_Witness ==
    /\ pc = "error" /\ args.overwrite
    /\ Len(log) = 2 /\ log[2].op = "sidecar_failed"
    /\ log[1].arg \in DOMAIN start.target
    /\ target[log[1].arg] = VideoContent(log[1].arg)
    /\ \E i \in 1..Len(SourceDirEntries) : SourceDirEntries[i].name = log[1].arg

\* The number of selected videos this invocation copied: those whose
\* destination did not exist when the invocation started, or all with overwrite
C12_Copied ==
    Cardinality({i \in 1..Len(files) : files[i].name \notin DOMAIN start.target \/ args.overwrite})

\* C12: the record changes only in the step that ends a completed invocation,
\* and that step always sets it to this invocation's record, whose
\* synced_count is the length of synced_files and the number of videos this
\* invocation copied, even if that is zero.
C12_RecordPerInvocation ==
    [][/\ record_file' # record_file => (pc = "loop" /\ pc' = "done")
       /\ (pc # "done" /\ pc' = "done") =>
              /\ Len(record_file') = 1
              /\ record_file'[1].created_at = run
              /\ record_file'[1].synced_files = synced
              /\ record_file'[1].synced_count = Len(record_file'[1].synced_files)
              /\ record_file'[1].synced_count = C12_Copied]_vars

\* C12 witness: a second invocation that synced nothing replaced the record of
\* the first, which had synced a video.
C12_Witness ==
    /\ pc = "done" /\ run = 2 /\ prev_done
    /\ start.record_file # <<>> /\ start.record_file[1].synced_count > 0
    /\ record_file[1].created_at = 2 /\ record_file[1].synced_count = 0
    /\ files # <<>>

\* The variant-filtered video files of the resolved source directory
C13_Wanted ==
    {p \in {SourceDirEntries[i] : i \in 1..Len(SourceDirEntries)} :
        /\ p.kind = "file" /\ EndsWith(p.name, DotMp4)
        /\ args.video_variant = "main_only" => ~is_wm_video_file(p.name)
        /\ args.video_variant = "wm_only" => is_wm_video_file(p.name)}

\* C13: in dated mode the selection is made of variant-filtered video files in
\* strictly ascending filename order and, up to the limit, omits none that
\* sorts before a selected one: it is the sorted list (its first `limit`
\* elements), whatever the manifest and the modification times are.
C13_DatedSelectionOrder ==
    (pc = "loop" /\ source.mode = "daily") =>
        LET count == Cardinality(C13_Wanted)
            n == IF args.limit > 0 /\ args.limit < count THEN args.limit ELSE count
            sel == {files[i] : i \in 1..Len(files)}
        IN  /\ Len(files) = n
            /\ sel \subseteq C13_Wanted
            /\ \A i, j \in 1..Len(files) : i < j => StrLess(files[i].name, files[j].name)
            /\ \A w \in C13_Wanted \ sel : \A i \in 1..Len(files) : StrLess(files[i].name, w.name)

\* C13 witness: b.mp4 is enumerated first, is the newest and is the first in
\* the manifest, yet the selection is a.mp4, a_wm.mp4, b.mp4.
C13_Witness ==
    /\ pc = "loop" /\ source.mode = "daily"
    /\ Len(files) = 3
    /\ files[1].name = NameA /\ files[2].name = NameAwm /\ files[3].name = NameB
    /\ SourceDirEntries[1].name = NameB
    /\ files[3].mtime > files[1].mtime /\ files[3].mtime > files[2].mtime
    /\ Len(manifest_file.entries) = 2
    /\ manifest_file.entries[1].asset_id = <<"b">>
    /\ manifest_file.entries[2].asset_id = <<"a">>

\* The positions in the current file's log of the operations named op
C14_At(op) == {i \in 1..Len(log) : log[i].op = op}

\* The reason a failed manifest attempt sets for the current file
C14_ManifestReason ==
    IF cur.thumbnail_url = <<>> THEN "no_thumbnail_url"
    ELSE IF cur.is_duplicate_thumb THEN "thumbnail_url_duplicated_in_manifest"
    ELSE "thumbnail_download_failed"

\* C14: when a copied video's result is about to be appended, under manifest
\* the frame cover was not attempted; under frame the manifest cover and the
\* network were not attempted; under auto the manifest cover was attempted
\* once and first, the frame cover was attempted iff it failed, and then the
\* reason of the manifest failure is the cover_reason, whether the frame
\* attempt succeeded or not.  The results already appended agree.
C14_CoverDispatch ==
    /\ pc = "append" =>
        LET m   == C14_At("try_manifest_cover")
            f   == C14_At("try_frame_cover")
            net == C14_At("urlopen") \cup C14_At("curl")
            ff  == C14_At("ffmpeg")
        IN  CASE args.cover_strategy = "manifest" ->
                    Cardinality(m) = 1 /\ f = {} /\ ff = {}
              [] args.cover_strategy = "frame" ->
                    m = {} /\ net = {} /\ Cardinality(f) = 1
              [] OTHER ->
                    /\ Cardinality(m) = 1 /\ Cardinality(f) <= 1
                    /\ \A i \in m : \A j \in f \cup ff : i < j
                    /\ \A j \in net : \A k \in f \cup ff : j < k
                    /\ (f = {}) <=> (cur.cover_source = "manifest")
                    /\ f = {} => cur.cover_reason = "none" /\ ff = {}
                    /\ f # {} => /\ cur.cover_reason = C14_ManifestReason
                                 /\ cur.cover_source \in {"frame", "none"}
    /\ args.cover_strategy = "auto" =>
          \A i \in 1..Len(synced) :
              /\ synced[i].cover_source = "manifest" => synced[i].cover_reason = "none"
              /\ synced[i].cover_source # "manifest" => synced[i].cover_reason \in C7_ManifestReasons
    /\ args.cover_strategy = "manifest" =>
          \A i \in 1..Len(synced) : synced[i].cover_source # "frame"
    /\ args.cover_strategy = "frame" =>
          \A i \in 1..Len(synced) : synced[i].cover_source # "manifest"

\* C14 witness: under auto the download failed after both urlopen attempts and
\* curl, the frame was then extracted, and the download failure is the reason.
C14_Witness ==
    /\ pc = "append" /\ args.cover_strategy = "auto"
    /\ C14_At("curl") # {} /\ C14_At("ffmpeg") # {}
    /\ cur.cover_source = "frame"
    /\ cur.cover_reason = "thumbnail_download_failed"

\* C15: in the log of one file's thumbnail fetch there are at most two
\* urlopen attempts and at most one curl attempt; a second urlopen follows a
\* failed first one; curl follows two failed urlopens; nothing is attempted
\* after an attempt that did not fail; and when all three failed the manifest
\* cover failed with reason thumbnail_download_failed.
C15_BoundedFetch ==
    LET u  == C14_At("urlopen")
        uf == C14_At("urlopen_failed")
        c  == C14_At("curl")
        cf == C14_At("curl_failed")
        failed(i) == i + 1 \in uf \cup cf
    IN  /\ Cardinality(u) <= 2 /\ Cardinality(c) <= 1
        /\ \A i, j \in u : i < j => failed(i)
        /\ \A j \in c : Cardinality(u) = 2 /\ \A i \in u : i < j /\ failed(i)
        /\ \A i \in u \cup c : ~failed(i) => \A j \in u \cup c : j <= i
        /\ (Cardinality(uf) = 2 /\ cf # {} /\ pc \in {"frame", "append"}) =>
              /\ cur.cover_reason = "thumbnail_download_failed"
              /\ cur.cover_source # "manifest"

\* C15 witness: both urlopen attempts and curl failed, and the result that
\* was appended carries the download failure.
C15_Witness ==
    /\ pc = "loop" /\ synced # <<>>
    /\ Cardinality(C14_At("urlopen_failed")) = 2 /\ C14_At("curl_failed") # {}
    /\ synced[Len(synced)].cover_reason = "thumbnail_download_failed"
    /\ synced[Len(synced)].cover_source = "none"

\* The positions in the selection of the video a result is about
C16_Positions(result) == {i \in 1..Len(files) : files[i].name = result.name}

\* C16: every result is about one selected video that the loop has passed,
\* the results are in the order of the selection (so no video has two), a
\* completed run with overwrite has one result for every selected video, and
\* the record's synced_files is that sequence.
C16_ResultOrder ==
    /\ \A k \in 1..Len(synced) :
          /\ Cardinality(C16_Positions(synced[k])) = 1
          /\ \A i \in C16_Positions(synced[k]) : i < pos \/ (i = pos /\ pc = "done")
    /\ \A k, l \in 1..Len(synced) :
          k < l => \A i \in C16_Positions(synced[k]) : \A j \in C16_Positions(synced[l]) : i < j
    /\ (pc = "done" /\ args.overwrite) =>
          /\ Len(synced) = Len(files)
          /\ \A i \in 1..Len(files) : synced[i].name = files[i].name
    /\ pc = "done" => record_file[1].synced_files = synced

\* C16 witness: a completed run without overwrite skipped the first of two
\* selected videos and has a result for the second only.
C16_Witness ==
    /\ pc = "done" /\ ~args.overwrite
    /\ Len(files) = 2 /\ Len(synced) = 1
    /\ synced[1].name = files[2].name

\* C16 second case: a completed run with overwrite has the results of both
\* selected videos in selection order.
C16_WitnessOverwrite ==
    /\ pc = "done" /\ args.overwrite
    /\ Len(files) = 2 /\ Len(synced) = 2
    /\ files[1].name \in DOMAIN start.target

\* The orders in which the resolved source directory can be enumerated
C17_Enumerations ==
    {l \in Listings : /\ Len(l) = Len(SourceDirEntries)
                      /\ {l[i] : i \in 1..Len(l)} =
                             {SourceDirEntries[i] : i \in 1..Len(SourceDirEntries)}}

\* ordered_source_videos with the arguments of this invocation on listing l
C17_Select(l) ==
    ordered_source_videos(l, index.entries, args.limit, args.video_variant, source.mode)

\* C17: the selection is the same for every order in which the source
\* directory's files (same names and modification times) can be enumerated,
\* with the same manifest, mode, variant and limit.
C17_SelectionIgnoresEnumeration ==
    pc = "loop" => \A l \in C17_Enumerations : C17_Select(l) = files

\* What holds instead: the selection ignores the enumeration order in dated
\* mode, and in flat mode when no two files that no manifest entry matches
\* have the same modification time.
C17_SelectionIgnoresEnumerationWithoutTies ==
    (/\ pc = "loop"
     /\ source.mode = "flat" =>
           \A i, j \in 1..Len(SourceDirEntries) :
               LET p == SourceDirEntries[i]
                   q == SourceDirEntries[j]
               IN  (i # j /\ C6_Places(p.name) = {} /\ C6_Places(q.name) = {})
                       => p.mtime # q.mtime)
        => \A l \in C17_Enumerations : C17_Select(l) = files

\* The copy of the current video or the write of its sidecar has failed
C18_Failed == \E i \in 1..Len(log) : log[i].op \in {"copy_failed", "sidecar_failed"}

\* The run is aborted at the current file: no record was written, the earlier
\* files that were copied have their result, video, sidecar and cover in the
\* target, and nothing of the later selected videos was written.
C18_Aborted ==
    /\ pc = "error"
    /\ pos <= Len(files)
    /\ record_file = start.record_file
    /\ \A k \in 1..Len(synced) :
          /\ \E i \in 1..(pos - 1) : files[i].name = synced[k].name
          /\ synced[k].mp4 \in DOMAIN target /\ target[synced[k].mp4] = VideoContent(synced[k].name)
          /\ synced[k].txt \in DOMAIN target /\ target[synced[k].txt] = SidecarContent(synced[k].title)
          /\ synced[k].thumbnail_file # <<>> => synced[k].thumbnail_file \in DOMAIN target
    /\ \A i \in 1..(pos - 1) :
          (files[i].name \notin DOMAIN start.target \/ args.overwrite)
              => \E k \in 1..Len(synced) : synced[k].name = files[i].name
    /\ \A i \in (pos + 1)..Len(files) :
          \A n \in {files[i].name, TxtName(files[i].name), CoverName(files[i].name)} :
              IF n \in DOMAIN start.target
                THEN n \in DOMAIN target /\ target[n] = start.target[n]
              ELSE n \notin DOMAIN target

\* C18: a step in which the copy or the sidecar write fails leaves the run
\* aborted, and the only step after it starts the next invocation.
C18_CopyFailureAborts ==
    [][/\ C18_Failed' => C18_Aborted'
       /\ C18_Failed => (run' = run + 1 /\ pc' = "main")]_vars

\* C18 witness: in a second invocation the copy of the second video failed
\* after the first was synced with a cover; the first invocation's record stays.
C18_Witness ==
    /\ pc = "error" /\ run = 2 /\ pos = 2
    /\ log[1].op = "copy_failed"
    /\ Len(synced) = 1 /\ synced[1].thumbnail_file # <<>>
    /\ record_file # <<>> /\ record_file[1].created_at = 1

\* The results of this invocation: those appended so far and, once the run
\* is complete, those of the record
C19_Results ==
    {synced[k] : k \in 1..Len(synced)}
        \cup (IF pc = "done"
                THEN {record_file[1].synced_files[k] : k \in 1..Len(record_file[1].synced_files)}
              ELSE {})

\* C19: in every result thumbnail_file is set iff cover_source is manifest or
\* frame; a result without cover source has a cover_reason; a result with
\* cover_source manifest has a thumbnail_url that only one asset of the
\* manifest resolves to, and no cover_reason.
C19_CoverOutcomeConsistent ==
    \A r \in C19_Results :
        /\ r.cover_source \in {"manifest", "frame", "none"}
        /\ (r.thumbnail_file # <<>>) <=> (r.cover_source \in {"manifest", "frame"})
        /\ r.thumbnail_file # <<>> => r.thumbnail_file = CoverName(r.name)
        /\ r.cover_source = "none" => r.cover_reason # "none"
        /\ r.cover_source = "manifest" =>
              /\ r.thumbnail_url # <<>>
              /\ Cardinality(C2_AssetsResolvingTo(r.thumbnail_url)) = 1
              /\ r.cover_reason = "none"

\* C19 witness: one run has a result with the manifest thumbnail as cover and
\* a result without cover.
C19_Witness ==
    /\ pc = "done"
    /\ \E r \in C19_Results : r.cover_source = "manifest" /\ r.thumbnail_file # <<>>
    /\ \E r \in C19_Results : r.cover_source = "none" /\ r.thumbnail_url # <<>>

\* The selection of this invocation before truncation
C20_Untruncated ==
    ordered_source_videos(SourceDirEntries, index.entries, 0, args.video_variant, source.mode)

\* C20: in both modes the selection before truncation holds every
\* variant-filtered video file of the source directory exactly once, whatever
\* the manifest; without limit the selection is that sequence, with limit N > 0
\* it is its first min(N, count) elements.
C20_SelectionIsPermutation ==
    pc = "loop" =>
        LET full  == C20_Untruncated
            count == Cardinality(C13_Wanted)
            n     == IF args.limit > 0 /\ args.limit < count THEN args.limit ELSE count
        IN  /\ Len(full) = count
            /\ {full[i] : i \in 1..Len(full)} = C13_Wanted
            /\ \A i, j \in 1..Len(full) : full[i].name = full[j].name => i = j
            /\ files = SubSeq(full, 1, n)
            /\ args.limit = 0 => files = full

\* C20 witness: in flat mode the manifest lists an asset id ending in the
\* marker suffix and then the asset itself, three videos are on disk, and the
\* limit keeps the first of the three.
C20_Witness ==
    /\ pc = "loop" /\ source.mode = "flat" /\ args.video_variant = "all"
    /\ Len(manifest_file.entries) = 2
    /\ manifest_file.entries[1].asset_id = <<"a">> \o WmSuffix
    /\ manifest_file.entries[2].asset_id = <<"a">>
    /\ Cardinality(C13_Wanted) = 3
    /\ args.limit = 1 /\ Len(files) = 1 /\ files[1].name = NameAwm

\* The positions of main() at which the loop of sync_videos is running
C21_InLoop == pc \in {"loop", "cover", "frame", "append"}

\* C21: with limit N > 0, while the loop runs the files it considers are the
\* first N of the selection order, whether or not their destinations exist;
\* it has at most N results; and no step writes the video, sidecar or cover of
\* a video beyond the first N.  The target changes in no other step, so no
\* number of repeated runs syncs a video beyond the first N.
C21_LimitBeforeSkip ==
    [][/\ (args.limit > 0 /\ C21_InLoop) =>
              LET full == C20_Untruncated
                  n == IF args.limit < Len(full) THEN args.limit ELSE Len(full)
              IN  /\ files = SubSeq(full, 1, n)
                  /\ Len(synced') <= args.limit
                  /\ \A i \in (n + 1)..Len(full) :
                        \A f \in {full[i].name, TxtName(full[i].name), CoverName(full[i].name)} :
                            IF f \in DOMAIN target
                              THEN f \in DOMAIN target' /\ target'[f] = target[f]
                            ELSE f \notin DOMAIN target'
       /\ ~C21_InLoop => target' = target]_vars

\* C21 witness: the second of two runs with limit 1 and without overwrite is
\* complete; the first selected video was already in the target and was
\* skipped, nothing was synced, and the second video of the selection order
\* is still not in the target.
C21_Witness ==
    /\ pc = "done" /\ run = 2 /\ prev_done
    /\ args.limit = 1 /\ ~args.overwrite
    /\ Len(C20_Untruncated) = 2 /\ Len(files) = 1
    /\ files[1].name \in DOMAIN target
    /\ synced = <<>> /\ record_file[1].synced_count = 0
    /\ C20_Untruncated[2].name \notin DOMAIN target

====
